---- MODULE Spec2Model ----
(***************************************************************************)
(* Payment reconciliation of truck hiring notes (THN): the controllers of *)
(* backend/src/controllers/paymentController.ts (payments) and the THN    *)
(* controller that follows it in the same file, over the Payment and      *)
(* TruckHiringNote collections and the NumberingConfig counters.          *)
(*                                                                         *)
(* Every request handler is one action (requests are served one after     *)
(* another).  Spec draws payment requests without TDS fields and is the   *)
(* specification of the THN reconciliation; SpecTds draws the TDS fields  *)
(* of payment requests against one THN.  Money is an integer number of    *)
(* units; the request amounts and rates are chosen so that                *)
(* amount * rate / 100 is exact.                                          *)
(* Fields that no modelled handler reads (date text, mode, notes, the     *)
(* customer of a stored payment) are not part of the records; a date is   *)
(* kept only as supplied / not supplied.                                  *)
(***************************************************************************)
EXTENDS Integers, Sequences, FiniteSets, TLC

\* ---------------------------------------------------------------- bounds
MaxThn == 2
MaxPay == 2
\* how many times saving a synthesized advance Payment may fail
MaxSynthFail == 1
\* how many writing requests (create / update / delete) a behaviour serves
MaxRequests == 3

\* how many requests are served one await at a time
MaxCalls == 3

ThnIds == 1..MaxThn
CallIds == 1..MaxCalls
PayIds == 1..MaxPay
InvoiceIds == {1}

\* undefined / absent value of an optional numeric field or reference
Undefined == 0 - 1
\* a well-formed id under which no THN was ever stored
MissingThn == Undefined - 1

\* request inputs
FreightRates == {8}
AdditionalChargeInputs == {0, 4}
AdvanceInputs == {0, 8}
AmountInputs == {0, 4}
AmountUpdates == {8}
FreightRateUpdates == {16}
TdsRateInputs == {50}
TdsAmountInputs == {2}

\* PaymentType and THNStatus of ../types
ADVANCE == "Advance"
RECEIPT == "Receipt"
PAYMENT == "Payment"
PaymentTypes == {ADVANCE, RECEIPT, PAYMENT}
UNPAID == "Unpaid"
PARTIALLY_PAID == "Partially Paid"
PAID == "Paid"

\* an optional boolean: "true", "false" or "undefined"
OptBool == {"true", "false", "undefined"}

VARIABLES
  thns,            \* TruckHiringNote collection: id -> document
  payments,        \* Payment collection: id -> document
  invoicePayments, \* Invoice.payments: invoice id -> sequence of payment ids
  thnCounter,      \* NumberingConfig {type: 'truckHiringNoteId'}.currentNumber
  payCounter,      \* NumberingConfig {type: 'paymentId'}.currentNumber
  nextThn,         \* next fresh TruckHiringNote _id
  nextPay,         \* next fresh Payment _id
  requests,        \* number of writing requests served
  lastOp,          \* history: the request that completed last
  synthesized,     \* history: THNs created with a synthesized advance
  fresh,           \* history: those of them that have only been
                   \* recomputed since
  ledgerIn,        \* the arrays a ledger page passes to LedgerService
  now,             \* the clock (Date.now()), in days
  ledgerOut,       \* the arguments and the result of the last ledger call
  batch,           \* the getTruckHiringNotes request in progress
  recompute,       \* THN id -> position and locals of its updateThnStatus
  batchStart,      \* history: the collections when the batch read them
  calls            \* request handlers in progress: call id -> position and
                   \* locals

\* what the LedgerService reads and returns
ledgerVars == <<ledgerIn, now, ledgerOut>>

\* a getTruckHiringNotes request and the updateThnStatus calls it awaits
batchVars == <<batch, recompute, batchStart>>

\* the requests served one await at a time
callVars == <<calls>>

vars == <<thns, payments, invoicePayments, thnCounter, payCounter,
          nextThn, nextPay, requests, lastOp, synthesized, fresh,
          ledgerIn, now, ledgerOut, batch, recompute, batchStart, calls>>

NoThn ==
  [exists |-> FALSE, thnNumber |-> 0, freightRate |-> 0,
   additionalCharges |-> 0, advanceAmount |-> 0, paidAmount |-> 0,
   balanceAmount |-> 0, status |-> UNPAID, payments |-> <<>>]

NoPayment ==
  [exists |-> FALSE, paymentNumber |-> 0, invoiceId |-> Undefined,
   truckHiringNoteId |-> Undefined, amount |-> 0, type |-> PAYMENT,
   tdsApplicable |-> "undefined", tdsRate |-> Undefined,
   tdsAmount |-> Undefined, tdsDate |-> FALSE, referenceNo |-> Undefined]

\* body of a payment request (create: all fields as parsed; update: partial)
NoReq ==
  [invoiceId |-> Undefined, truckHiringNoteId |-> Undefined,
   customer |-> "undefined", amount |-> Undefined, type |-> "undefined",
   tdsApplicable |-> "undefined", tdsRate |-> Undefined,
   tdsAmount |-> Undefined, date |-> FALSE, tdsDate |-> FALSE]

NoOp == [op |-> "none", thn |-> Undefined, pid |-> Undefined, code |-> 0]

Max(a, b) == IF a >= b THEN a ELSE b

RECURSIVE SumAmounts(_, _)
SumAmounts(P, S) ==
  IF S = {} THEN 0
  ELSE LET p == CHOOSE x \in S : TRUE
       IN P[p].amount + SumAmounts(P, S \ {p})

RemoveId(s, p) == SelectSeq(s, LAMBDA x : x # p)

\* Payment documents whose truckHiringNoteId is t
LinkedPayments(P, t) ==
  {p \in PayIds : P[p].exists /\ P[p].truckHiringNoteId = t}

\* ------------------------------------------------------- updateThnStatus
\* Payment.aggregate $match truckHiringNoteId, $sum amount
PaidFromRecords(P, t) == SumAmounts(P, LinkedPayments(P, t))

\* Payment.findOne({truckHiringNoteId, type: ADVANCE})
AdvancePaymentExists(P, t) ==
  \E p \in LinkedPayments(P, t) : P[p].type = ADVANCE

\* variant: the fallback adds the advance to the stored paidAmount
TotalPaidAmountAccumulating(T, P, t) ==
  IF AdvancePaymentExists(P, t)
  THEN PaidFromRecords(P, t)
  ELSE T[t].paidAmount + T[t].advanceAmount

\* variant: the advance is added although its Payment is in the sum
TotalPaidAmountDoubleCount(T, P, t) ==
  PaidFromRecords(P, t) + T[t].advanceAmount

\* variant: the advance of the THN is never added
TotalPaidAmountRecordsOnly(T, P, t) == PaidFromRecords(P, t)

TotalPaidAmount(T, P, t) ==
  IF AdvancePaymentExists(P, t)
  THEN PaidFromRecords(P, t)
  ELSE PaidFromRecords(P, t) + T[t].advanceAmount

\* variant: the balance is not clamped at zero
BalanceOfUnclamped(totalAmount, totalPaid) == totalAmount - totalPaid

BalanceOf(totalAmount, totalPaid) == Max(0, totalAmount - totalPaid)

\* variant: a THN counts as paid only when it is overpaid
StatusOfStrict(balanceAmount, totalPaid) ==
  IF balanceAmount < 0 THEN PAID
  ELSE IF totalPaid > 0 THEN PARTIALLY_PAID
  ELSE UNPAID

StatusOf(balanceAmount, totalPaid) ==
  IF balanceAmount <= 0 THEN PAID
  ELSE IF totalPaid > 0 THEN PARTIALLY_PAID
  ELSE UNPAID

\* the THN collection after updateThnStatus(t) on collections T, P
UpdateThnStatus(T, P, t) ==
  IF t \in ThnIds /\ T[t].exists
  THEN LET totalPaid == TotalPaidAmount(T, P, t)
           balance == BalanceOf(T[t].freightRate + T[t].additionalCharges,
                                totalPaid)
       IN [T EXCEPT ![t].paidAmount = totalPaid,
                    ![t].balanceAmount = balance,
                    ![t].status = StatusOf(balance, totalPaid)]
  ELSE T

\* ------------------------------------------------------------------ Init
\* empty collections, counters at 1
StoreInit ==
  /\ thns = [t \in ThnIds |-> NoThn]
  /\ payments = [p \in PayIds |-> NoPayment]
  /\ invoicePayments = [i \in InvoiceIds |-> <<>>]
  /\ thnCounter = 1
  /\ payCounter = 1
  /\ nextThn = 1
  /\ nextPay = 1
  /\ requests = 0
  /\ lastOp = NoOp
  /\ synthesized = {}
  /\ fresh = {}

\* no ledger call has been made
NoLedger == [kind |-> "none"]

\* no getTruckHiringNotes request is in progress
NoBatch == [phase |-> "idle", notes |-> {}, code |-> 0]

\* an updateThnStatus call that has not started
NoRecompute ==
  [pc |-> "idle", totalAmount |-> 0, advanceAmount |-> 0, paidAmount |-> 0,
   advancePaymentExists |-> FALSE, failed |-> FALSE, wrote |-> FALSE]

BatchInit ==
  /\ batch = NoBatch
  /\ recompute = [t \in ThnIds |-> NoRecompute]
  /\ batchStart = [thns |-> <<>>, payments |-> <<>>]

\* a call that has not been made
NoCall ==
  [op |-> "none", pc |-> "idle", number |-> 0, thn |-> Undefined,
   advanceAmount |-> 0, existingNote |-> NoThn,
   existingAdvancePayment |-> Undefined, code |-> 0]

CallsInit == calls = [c \in CallIds |-> NoCall]

\* the first clock reading
FirstDay == 400

Init ==
  /\ StoreInit
  /\ ledgerIn = [invoices |-> <<>>, payments |-> <<>>,
                 truckHiringNotes |-> <<>>]
  /\ now = FirstDay
  /\ ledgerOut = NoLedger
  /\ BatchInit
  /\ CallsInit

\* a THN reference a client can send: none, the id of no THN, or the id of
\* a THN that has been stored (ids are never reused)
KnownThnRef(t) == t \in {Undefined, MissingThn} \/ (1 <= t /\ t < nextThn)

\* ------------------------------------------------- THN read paths
\* GET /:id/recalculate
recalculateThnStatus(t) ==
  /\ thns' = UpdateThnStatus(thns, payments, t)
  /\ lastOp' = [NoOp EXCEPT !.op = "recalculateThnStatus", !.thn = t,
                            !.code = IF thns[t].exists THEN 200 ELSE 404]
  /\ UNCHANGED <<payments, invoicePayments, thnCounter, payCounter,
                 nextThn, nextPay, requests, synthesized, fresh>>
  /\ UNCHANGED <<ledgerVars, batchVars, callVars>>

\* GET / : every stored THN is recomputed (Promise.all over notes)
getTruckHiringNotes ==
  /\ thns' = [t \in ThnIds |-> UpdateThnStatus(thns, payments, t)[t]]
  /\ lastOp' = [NoOp EXCEPT !.op = "getTruckHiringNotes", !.code = 200]
  /\ UNCHANGED <<payments, invoicePayments, thnCounter, payCounter,
                 nextThn, nextPay, requests, synthesized, fresh>>
  /\ UNCHANGED <<ledgerVars, batchVars, callVars>>

\* ------------------------------------------------- createTruckHiringNote
\* synthOk = FALSE: saving the advance Payment throws (caught, logged)
createTruckHiringNote(f, c, a, synthOk) ==
  /\ requests < MaxRequests
  /\ requests' = requests + 1
  /\ nextThn <= MaxThn
  /\ (a > 0 /\ synthOk) => nextPay <= MaxPay
  /\ ~synthOk => a > 0 /\ payCounter - nextPay < MaxSynthFail
  /\ LET t == nextThn
         balance == BalanceOf(f + c, a)
         initialStatus == IF balance <= 0 THEN PAID
                          ELSE IF a > 0 THEN PARTIALLY_PAID
                          ELSE UNPAID
         note == [exists |-> TRUE, thnNumber |-> thnCounter,
                  freightRate |-> f, additionalCharges |-> c,
                  advanceAmount |-> a, paidAmount |-> a,
                  balanceAmount |-> balance, status |-> initialStatus,
                  payments |-> <<>>]
         advancePayment ==
                 [NoPayment EXCEPT !.exists = TRUE,
                                   !.paymentNumber = payCounter,
                                   !.truckHiringNoteId = t,
                                   !.amount = a,
                                   !.type = ADVANCE,
                                   !.referenceNo = thnCounter]
     IN /\ thnCounter' = thnCounter + 1
        /\ nextThn' = nextThn + 1
        /\ IF a > 0
           THEN /\ payCounter' = payCounter + 1
                /\ IF synthOk
                   THEN /\ payments' =
                             [payments EXCEPT ![nextPay] = advancePayment]
                        /\ nextPay' = nextPay + 1
                        /\ thns' = [thns EXCEPT ![t] =
                                      [note EXCEPT !.payments = <<nextPay>>]]
                        /\ synthesized' = synthesized \cup {t}
                        /\ fresh' = fresh \cup {t}
                   ELSE /\ thns' = [thns EXCEPT ![t] = note]
                        /\ UNCHANGED <<payments, nextPay, synthesized,
                                       fresh>>
           ELSE /\ thns' = [thns EXCEPT ![t] = note]
                /\ UNCHANGED <<payments, payCounter, nextPay, synthesized,
                               fresh>>
        /\ lastOp' = [NoOp EXCEPT !.op = "createTruckHiringNote", !.thn = t,
                                  !.pid = IF a > 0 /\ synthOk THEN nextPay
                                          ELSE Undefined,
                                  !.code = 201]
  /\ UNCHANGED invoicePayments
  /\ UNCHANGED <<ledgerVars, batchVars, callVars>>

\* --------------------------------------------------------- createPayment
CreatePaymentRequests ==
  [invoiceId : {Undefined} \cup InvoiceIds,
   truckHiringNoteId : {Undefined, MissingThn} \cup ThnIds,
   customer : {"undefined", "valid", "malformed"},
   amount : AmountInputs,
   type : PaymentTypes,
   tdsApplicable : OptBool,
   tdsRate : {Undefined} \cup TdsRateInputs,
   tdsAmount : {Undefined} \cup TdsAmountInputs,
   date : {TRUE},
   tdsDate : {FALSE}]

\* requests without TDS fields, drawn by Spec
PlainCreateRequests ==
  [invoiceId : {Undefined} \cup InvoiceIds,
   truckHiringNoteId : {Undefined, MissingThn} \cup ThnIds,
   customer : {"valid"},
   amount : {a \in AmountInputs : a > 0},
   type : {ADVANCE, RECEIPT},
   tdsApplicable : {"undefined"},
   tdsRate : {Undefined},
   tdsAmount : {Undefined},
   date : {TRUE},
   tdsDate : {FALSE}]

\* requests against THN 1 with every combination of TDS fields, drawn by
\* SpecTds
TdsCreateRequests ==
  [invoiceId : {Undefined},
   truckHiringNoteId : {1},
   customer : {"undefined"},
   amount : {a \in AmountInputs : a > 0},
   type : PaymentTypes,
   tdsApplicable : OptBool,
   tdsRate : {Undefined} \cup TdsRateInputs,
   tdsAmount : {Undefined} \cup TdsAmountInputs,
   date : {TRUE},
   tdsDate : {FALSE}]

\* the four refinements of createPaymentSchema
PaymentRefinements(req) ==
  /\ req.invoiceId # Undefined \/ req.truckHiringNoteId # Undefined
  /\ req.invoiceId # Undefined => req.customer # "undefined"
  /\ ~(req.tdsApplicable = "true" /\ req.type # RECEIPT)
  /\ ~(req.tdsApplicable = "true" /\ req.tdsRate = Undefined)

\* createPaymentSchema.parse: field rules and the refinements
createPaymentSchema(req) ==
  /\ req.amount > 0
  /\ req.date
  /\ PaymentRefinements(req)

\* variant: a TDS request without a rate passes
CreatePaymentAcceptedRateOptional(req) ==
  /\ req.amount > 0
  /\ req.date
  /\ req.invoiceId # Undefined \/ req.truckHiringNoteId # Undefined
  /\ req.invoiceId # Undefined => req.customer # "undefined"
  /\ ~(req.tdsApplicable = "true" /\ req.type # RECEIPT)
  /\ req.customer # "malformed"

\* the controller's own checks before anything is written
CreatePaymentAccepted(req) ==
  /\ createPaymentSchema(req)
  /\ req.customer # "malformed"
  /\ ~(req.tdsApplicable = "true" /\ req.type = RECEIPT
       /\ req.tdsRate = Undefined)

TdsOf(amount, rate) == (amount * rate) \div 100

\* variant: the gross amount is stored although TDS was derived from it
NewPaymentGross(req, paymentNumber) ==
  [exists |-> TRUE, paymentNumber |-> paymentNumber,
   invoiceId |-> req.invoiceId,
   truckHiringNoteId |-> req.truckHiringNoteId,
   amount |-> req.amount, type |-> req.type,
   tdsApplicable |-> req.tdsApplicable,
   tdsRate |-> IF req.tdsApplicable = "true" /\ req.type = RECEIPT
               THEN req.tdsRate ELSE Undefined,
   tdsAmount |-> IF req.tdsApplicable = "true" /\ req.type = RECEIPT
                 THEN IF req.tdsAmount = Undefined
                      THEN TdsOf(req.amount, req.tdsRate)
                      ELSE req.tdsAmount
                 ELSE Undefined,
   tdsDate |-> (req.tdsApplicable = "true" /\ req.type = RECEIPT),
   referenceNo |-> Undefined]

\* the Payment document createPayment saves for an accepted request
NewPayment(req, paymentNumber) ==
  IF req.tdsApplicable = "true" /\ req.type = RECEIPT
  THEN LET tdsAmount == IF req.tdsAmount = Undefined
                        THEN TdsOf(req.amount, req.tdsRate)
                        ELSE req.tdsAmount
           finalAmount == IF req.tdsAmount = Undefined
                          THEN req.amount - tdsAmount
                          ELSE req.amount
       IN [exists |-> TRUE, paymentNumber |-> paymentNumber,
           invoiceId |-> req.invoiceId,
           truckHiringNoteId |-> req.truckHiringNoteId,
           amount |-> finalAmount, type |-> req.type,
           tdsApplicable |-> req.tdsApplicable, tdsRate |-> req.tdsRate,
           tdsAmount |-> tdsAmount, tdsDate |-> (req.tdsDate \/ req.date),
           referenceNo |-> Undefined]
  ELSE [exists |-> TRUE, paymentNumber |-> paymentNumber,
        invoiceId |-> req.invoiceId,
        truckHiringNoteId |-> req.truckHiringNoteId,
        amount |-> req.amount, type |-> req.type,
        tdsApplicable |-> req.tdsApplicable, tdsRate |-> Undefined,
        tdsAmount |-> Undefined, tdsDate |-> FALSE,
        referenceNo |-> Undefined]

\* TruckHiringNote.findByIdAndUpdate(t, {$push: {payments: p}})
PushPayment(T, t, p) ==
  IF t \in ThnIds /\ T[t].exists
  THEN [T EXCEPT ![t].payments = Append(@, p)]
  ELSE T

\* TruckHiringNote.findByIdAndUpdate(t, {$pull: {payments: p}})
PullPayment(T, t, p) ==
  IF t \in ThnIds /\ T[t].exists
  THEN [T EXCEPT ![t].payments = RemoveId(@, p)]
  ELSE T

createPayment(req) ==
  /\ requests < MaxRequests
  /\ requests' = requests + 1
  /\ CreatePaymentAccepted(req)
  /\ KnownThnRef(req.truckHiringNoteId)
  /\ nextPay <= MaxPay
  /\ LET p == nextPay
         P2 == [payments EXCEPT ![p] = NewPayment(req, payCounter)]
     IN /\ payments' = P2
        /\ payCounter' = payCounter + 1
        /\ nextPay' = nextPay + 1
        /\ IF req.invoiceId # Undefined
           THEN /\ invoicePayments' =
                     [invoicePayments EXCEPT ![req.invoiceId] = Append(@, p)]
                /\ thns' = thns
                /\ lastOp' = [op |-> "createPayment", thn |-> Undefined,
                              pid |-> p, code |-> 201]
           ELSE /\ invoicePayments' = invoicePayments
                /\ thns' = UpdateThnStatus(
                             PushPayment(thns, req.truckHiringNoteId, p),
                             P2, req.truckHiringNoteId)
                /\ lastOp' = [op |-> "createPayment",
                              thn |-> req.truckHiringNoteId,
                              pid |-> p, code |-> 201]
  /\ fresh' = {}
  /\ UNCHANGED <<thnCounter, nextThn, synthesized>>
  /\ UNCHANGED <<ledgerVars, batchVars, callVars>>

\* one request for each way of failing validation
InvalidCreateRequests ==
  LET ok == [NoReq EXCEPT !.truckHiringNoteId = 1, !.amount = 4,
                          !.type = RECEIPT, !.date = TRUE]
  IN {[ok EXCEPT !.truckHiringNoteId = Undefined],
      [ok EXCEPT !.amount = 0],
      [ok EXCEPT !.invoiceId = 1],
      [ok EXCEPT !.customer = "malformed"],
      [ok EXCEPT !.tdsApplicable = "true"],
      [ok EXCEPT !.tdsApplicable = "true", !.tdsRate = 50,
                 !.type = PAYMENT]}

\* a request that fails validation is answered 400 before any write
createPaymentRejected(req) ==
  /\ ~CreatePaymentAccepted(req)
  /\ lastOp' = [NoOp EXCEPT !.op = "createPayment", !.code = 400]
  /\ UNCHANGED <<thns, payments, invoicePayments, thnCounter, payCounter,
                 nextThn, nextPay, requests, synthesized, fresh>>
  /\ UNCHANGED <<ledgerVars, batchVars, callVars>>

\* --------------------------------------------------------- deletePayment
deletePayment(p) ==
  /\ requests < MaxRequests
  /\ requests' = requests + 1
  /\ payments[p].exists
  /\ LET payment == payments[p]
         P2 == [payments EXCEPT ![p] = NoPayment]
     IN /\ payments' = P2
        /\ IF payment.invoiceId # Undefined
           THEN /\ invoicePayments' =
                     [invoicePayments EXCEPT ![payment.invoiceId] =
                                               RemoveId(@, p)]
                /\ thns' = thns
                /\ lastOp' = [NoOp EXCEPT !.op = "deletePayment", !.pid = p,
                                !.code = 200]
           ELSE /\ invoicePayments' = invoicePayments
                /\ thns' = UpdateThnStatus(
                             PullPayment(thns, payment.truckHiringNoteId, p),
                             P2, payment.truckHiringNoteId)
                /\ lastOp' = [NoOp EXCEPT !.op = "deletePayment", !.pid = p,
                                !.thn = payment.truckHiringNoteId,
                                !.code = 200]
  /\ fresh' = {}
  /\ UNCHANGED <<thnCounter, payCounter, nextThn, nextPay, synthesized>>
  /\ UNCHANGED <<ledgerVars, batchVars, callVars>>

\* --------------------------------------------------------- updatePayment
\* updatePaymentSchema = createPaymentSchema.partial(): every field optional
UpdatePaymentRequests ==
  [invoiceId : {Undefined} \cup InvoiceIds,
   truckHiringNoteId : {Undefined, MissingThn} \cup ThnIds,
   customer : {"undefined", "valid"},
   amount : {Undefined} \cup AmountUpdates,
   type : {"undefined"} \cup PaymentTypes,
   tdsApplicable : OptBool,
   tdsRate : {Undefined} \cup TdsRateInputs,
   tdsAmount : {Undefined} \cup TdsAmountInputs,
   date : BOOLEAN,
   tdsDate : {FALSE}]

\* updatePaymentSchema.parse: the field rules of createPaymentSchema, every
\* field optional
updatePaymentSchema(req) == req.amount = Undefined \/ req.amount > 0

\* The requests drawn repeat the payment's parent reference, as a client
\* that sends the whole form does, and satisfy PaymentRefinements, so that
\* they are accepted whether or not the partial schema keeps the
\* refinements.
PlainUpdateRequests ==
  {req \in [invoiceId : {Undefined} \cup InvoiceIds,
            truckHiringNoteId : {Undefined, MissingThn} \cup ThnIds,
            customer : {"valid"},
            amount : {Undefined} \cup AmountUpdates,
            type : {"undefined", ADVANCE, RECEIPT},
            tdsApplicable : {"undefined"},
            tdsRate : {Undefined},
            tdsAmount : {Undefined},
            date : {FALSE},
            tdsDate : {FALSE}] : PaymentRefinements(req)}

TdsUpdateRequests ==
  {req \in [invoiceId : {Undefined},
            truckHiringNoteId : {1},
            customer : {"undefined"},
            amount : {Undefined} \cup AmountUpdates,
            type : {"undefined"} \cup PaymentTypes,
            tdsApplicable : OptBool,
            tdsRate : {Undefined} \cup TdsRateInputs,
            tdsAmount : {Undefined} \cup TdsAmountInputs,
            date : BOOLEAN,
            tdsDate : {FALSE}] : PaymentRefinements(req)}

\* a request without a TDS rate, and an empty one
RejectableUpdateRequests ==
  {[NoReq EXCEPT !.tdsApplicable = "true", !.type = RECEIPT], NoReq}

\* the 400 answer of the TDS branch
UpdatePaymentRateMissing(req) ==
  /\ req.tdsApplicable = "true"
  /\ req.type = RECEIPT
  /\ req.tdsRate = Undefined

\* a field of the document after findByIdAndUpdate: the request's value
\* when the request carries the key, the stored value otherwise
Updated(new, absent, old) == IF new = absent THEN old ELSE new

\* the Payment document after Payment.findByIdAndUpdate(id, updateData)
UpdatedPayment(old, req) ==
  LET base == [old EXCEPT
                 !.invoiceId = Updated(req.invoiceId, Undefined, @),
                 !.truckHiringNoteId =
                     Updated(req.truckHiringNoteId, Undefined, @),
                 !.amount = Updated(req.amount, Undefined, @),
                 !.type = Updated(req.type, "undefined", @),
                 !.tdsApplicable = Updated(req.tdsApplicable, "undefined", @),
                 !.tdsRate = Updated(req.tdsRate, Undefined, @)]
  IN IF req.tdsApplicable = "true" /\ req.type = RECEIPT
     THEN LET baseAmount == IF req.amount # Undefined THEN req.amount
                            ELSE old.amount
              tdsAmount == IF req.tdsAmount = Undefined
                           THEN TdsOf(baseAmount,
                                      IF req.tdsRate = Undefined THEN 0
                                      ELSE req.tdsRate)
                           ELSE req.tdsAmount
          IN [base EXCEPT
                !.amount = IF req.amount # Undefined
                              /\ req.tdsAmount = Undefined
                           THEN req.amount - tdsAmount
                           ELSE @,
                !.tdsAmount = tdsAmount,
                !.tdsDate = (req.tdsDate \/ req.date)]
     ELSE IF req.tdsApplicable = "false"
     THEN [base EXCEPT !.tdsAmount = Undefined,
                       !.tdsRate = Undefined,
                       !.tdsDate = FALSE]
     ELSE [base EXCEPT !.tdsAmount = Updated(req.tdsAmount, Undefined, @),
                       !.tdsDate = (req.tdsDate \/ @)]

updatePayment(p, req) ==
  /\ requests < MaxRequests
  /\ requests' = requests + 1
  /\ updatePaymentSchema(req)
  /\ ~UpdatePaymentRateMissing(req)
  /\ KnownThnRef(req.truckHiringNoteId)
  /\ payments[p].exists
  /\ LET updatedPayment == UpdatedPayment(payments[p], req)
         P2 == [payments EXCEPT ![p] = updatedPayment]
     IN /\ payments' = P2
        /\ IF updatedPayment.invoiceId # Undefined
           THEN /\ thns' = thns
                /\ lastOp' = [op |-> "updatePayment", thn |-> Undefined,
                              pid |-> p, code |-> 200]
           ELSE /\ thns' = UpdateThnStatus(thns, P2,
                                           updatedPayment.truckHiringNoteId)
                /\ lastOp' = [op |-> "updatePayment",
                              thn |-> updatedPayment.truckHiringNoteId,
                              pid |-> p, code |-> 200]
  /\ fresh' = {}
  /\ UNCHANGED <<invoicePayments, thnCounter, payCounter, nextThn, nextPay,
                 synthesized>>
  /\ UNCHANGED <<ledgerVars, batchVars, callVars>>

\* 400 (TDS rate missing) or 404 (no such payment): nothing is written
updatePaymentRejected(p, req) ==
  /\ \/ /\ UpdatePaymentRateMissing(req)
        /\ lastOp' = [NoOp EXCEPT !.op = "updatePayment", !.code = 400]
     \/ /\ ~UpdatePaymentRateMissing(req)
        /\ ~payments[p].exists
        /\ lastOp' = [NoOp EXCEPT !.op = "updatePayment", !.code = 404]
  /\ UNCHANGED <<thns, payments, invoicePayments, thnCounter, payCounter,
                 nextThn, nextPay, requests, synthesized, fresh>>
  /\ UNCHANGED <<ledgerVars, batchVars, callVars>>

\* ------------------------------------------------- updateTruckHiringNote
\* Payment.findOne({truckHiringNoteId, type: ADVANCE, referenceNo: tag})
ExistingAdvancePayments(P, t, thnNumber) ==
  {p \in LinkedPayments(P, t) :
      P[p].type = ADVANCE /\ P[p].referenceNo = thnNumber}

\* f, a, c: the request's freightRate, advanceAmount, additionalCharges,
\* each Undefined when the request does not carry it
updateTruckHiringNote(t, f, a, c, synthOk) ==
  /\ requests < MaxRequests
  /\ requests' = requests + 1
  /\ thns[t].exists
  /\ LET existingNote == thns[t]
         financial == f # Undefined \/ a # Undefined \/ c # Undefined
         newFreightRate == Updated(f, Undefined, existingNote.freightRate)
         newAdvanceAmount == Updated(a, Undefined, existingNote.advanceAmount)
         newAdditionalCharges ==
             Updated(c, Undefined, existingNote.additionalCharges)
         advanceChanged == a # Undefined /\ a # existingNote.advanceAmount
         existing == ExistingAdvancePayments(payments, t,
                                             existingNote.thnNumber)
         found == existing # {}
         ep == IF found THEN CHOOSE p \in existing :
                               \A q \in existing : p <= q
               ELSE Undefined
         doUpdate == advanceChanged /\ a > 0 /\ found
         doCreate == advanceChanged /\ a > 0 /\ ~found
         doRemove == advanceChanged /\ a = 0 /\ found
         advancePayment ==
             [NoPayment EXCEPT !.exists = TRUE,
                               !.paymentNumber = payCounter,
                               !.truckHiringNoteId = t,
                               !.amount = a,
                               !.type = ADVANCE,
                               !.referenceNo = existingNote.thnNumber]
         P2 == IF doUpdate THEN [payments EXCEPT ![ep].amount = a]
               ELSE IF doCreate /\ synthOk
               THEN [payments EXCEPT ![nextPay] = advancePayment]
               ELSE IF doRemove THEN [payments EXCEPT ![ep] = NoPayment]
               ELSE payments
         T1 == IF doCreate /\ synthOk THEN PushPayment(thns, t, nextPay)
               ELSE IF doRemove THEN PullPayment(thns, t, ep)
               ELSE thns
         T2 == IF financial
               THEN [T1 EXCEPT ![t].freightRate = newFreightRate,
                               ![t].advanceAmount = newAdvanceAmount,
                               ![t].additionalCharges = newAdditionalCharges,
                               ![t].balanceAmount =
                                   BalanceOf(newFreightRate
                                               + newAdditionalCharges,
                                             newAdvanceAmount)]
               ELSE T1
     IN /\ (doCreate /\ synthOk) => nextPay <= MaxPay
        /\ ~synthOk => doCreate /\ payCounter - nextPay < MaxSynthFail
        /\ payments' = P2
        /\ payCounter' = IF doCreate THEN payCounter + 1 ELSE payCounter
        /\ nextPay' = IF doCreate /\ synthOk THEN nextPay + 1 ELSE nextPay
        /\ thns' = UpdateThnStatus(T2, P2, t)
        /\ lastOp' = [NoOp EXCEPT !.op = "updateTruckHiringNote", !.thn = t,
                                  !.pid = IF doCreate /\ synthOk THEN nextPay
                                          ELSE IF doUpdate \/ doRemove THEN ep
                                          ELSE Undefined,
                                  !.code = 200]
  /\ fresh' = {}
  /\ UNCHANGED <<invoicePayments, thnCounter, nextThn, synthesized>>
  /\ UNCHANGED <<ledgerVars, batchVars, callVars>>

\* ------------------------------------------------- deleteTruckHiringNote
deleteTruckHiringNote(t) ==
  /\ requests < MaxRequests
  /\ requests' = requests + 1
  /\ thns[t].exists
  /\ payments' = [p \in PayIds |->
                    IF p \in LinkedPayments(payments, t) THEN NoPayment
                    ELSE payments[p]]
  /\ thns' = [thns EXCEPT ![t] = NoThn]
  /\ lastOp' = [NoOp EXCEPT !.op = "deleteTruckHiringNote", !.thn = t,
                            !.code = 200]
  /\ synthesized' = synthesized \ {t}
  /\ fresh' = {}
  /\ UNCHANGED <<invoicePayments, thnCounter, payCounter, nextThn, nextPay>>
  /\ UNCHANGED <<ledgerVars, batchVars, callVars>>

\* ------------------------------------------------------------------ Next
Next ==
  \/ \E f \in FreightRates, c \in AdditionalChargeInputs,
        a \in AdvanceInputs, synthOk \in BOOLEAN :
       createTruckHiringNote(f, c, a, synthOk)
  \/ \E t \in ThnIds, f \in {Undefined} \cup FreightRateUpdates,
        a \in {Undefined} \cup AdvanceInputs,
        c \in {Undefined, 4}, synthOk \in BOOLEAN :
       updateTruckHiringNote(t, f, a, c, synthOk)
  \/ \E t \in ThnIds : deleteTruckHiringNote(t)
  \/ \E t \in ThnIds : recalculateThnStatus(t)
  \/ getTruckHiringNotes
  \/ \E p \in PayIds : deletePayment(p)
  \/ \E p \in PayIds, req \in PlainUpdateRequests : updatePayment(p, req)
  \/ \E req \in PlainCreateRequests : createPayment(req)

Spec == Init /\ [][Next]_vars

\* payments with TDS fields against one THN without advance
NextTds ==
  \/ \E f \in FreightRates : createTruckHiringNote(f, 0, 0, TRUE)
  \/ \E t \in ThnIds : recalculateThnStatus(t)
  \/ \E req \in TdsCreateRequests : createPayment(req)
  \/ \E req \in InvalidCreateRequests : createPaymentRejected(req)
  \/ \E p \in PayIds, req \in TdsUpdateRequests : updatePayment(p, req)
  \/ \E p \in PayIds, req \in RejectableUpdateRequests :
       updatePaymentRejected(p, req)
  \/ \E p \in PayIds : deletePayment(p)

SpecTds == Init /\ [][NextTds]_vars

\* ============================== getTruckHiringNotes, one await at a time
\* The request reads the THNs, starts one updateThnStatus per THN
\* (Promise.all) and answers when all of them have settled.  Each
\* updateThnStatus is four awaited database calls, and the calls of
\* different THNs interleave freely.

storeVars == <<payments, invoicePayments, thnCounter, payCounter, nextThn,
               nextPay, requests, synthesized, fresh>>

\* const notes = await TruckHiringNote.find(); notes.map(updateThnStatus)
getTruckHiringNotesFind ==
  /\ batch.phase = "idle"
  /\ batch' = [phase |-> "running",
               notes |-> {t \in ThnIds : thns[t].exists}, code |-> 0]
  /\ recompute' = [t \in ThnIds |->
                     IF thns[t].exists
                     THEN [NoRecompute EXCEPT !.pc = "findById"]
                     ELSE NoRecompute]
  /\ batchStart' = [thns |-> thns, payments |-> payments]
  /\ UNCHANGED <<thns, storeVars, lastOp, ledgerVars, callVars>>

\* const thn = await TruckHiringNote.findById(thnId); if (thn) ... else log
thnFindById(t) ==
  /\ recompute[t].pc = "findById"
  /\ recompute' =
       [recompute EXCEPT ![t] =
          IF thns[t].exists
          THEN [@ EXCEPT !.pc = "aggregate",
                         !.totalAmount = thns[t].freightRate
                                           + thns[t].additionalCharges,
                         !.advanceAmount = thns[t].advanceAmount]
          ELSE [@ EXCEPT !.pc = "done"]]
  /\ UNCHANGED <<thns, storeVars, lastOp, ledgerVars, callVars, batch,
                 batchStart>>

\* const totalPaid = await Payment.aggregate(...)
paymentAggregate(t) ==
  /\ recompute[t].pc = "aggregate"
  /\ recompute' = [recompute EXCEPT
                     ![t].pc = "findOne",
                     ![t].paidAmount = PaidFromRecords(payments, t)]
  /\ UNCHANGED <<thns, storeVars, lastOp, ledgerVars, callVars, batch,
                 batchStart>>

\* const advancePaymentExists = await Payment.findOne(...)
paymentFindOne(t) ==
  /\ recompute[t].pc = "findOne"
  /\ recompute' = [recompute EXCEPT
                     ![t].pc = "findByIdAndUpdate",
                     ![t].advancePaymentExists =
                         AdvancePaymentExists(payments, t)]
  /\ UNCHANGED <<thns, storeVars, lastOp, ledgerVars, callVars, batch,
                 batchStart>>

\* variant: the update has no id filter and sets the fields of every THN
SetThnStatusOfAll(T, t, paidAmount, balanceAmount, status) ==
  [u \in ThnIds |->
     IF T[u].exists
     THEN [T[u] EXCEPT !.paidAmount = paidAmount,
                       !.balanceAmount = balanceAmount,
                       !.status = status]
     ELSE T[u]]

\* TruckHiringNote.findByIdAndUpdate(thnId, {paidAmount, balanceAmount,
\* status}): sets the three fields of that document if it is still stored
SetThnStatus(T, t, paidAmount, balanceAmount, status) ==
  IF T[t].exists
  THEN [T EXCEPT ![t].paidAmount = paidAmount,
                 ![t].balanceAmount = balanceAmount,
                 ![t].status = status]
  ELSE T

\* totalPaidAmount, balanceAmount and status from the values read, then
\* await TruckHiringNote.findByIdAndUpdate(...)
thnFindByIdAndUpdate(t) ==
  /\ recompute[t].pc = "findByIdAndUpdate"
  /\ LET r == recompute[t]
         totalPaidAmount == IF r.advancePaymentExists THEN r.paidAmount
                            ELSE r.paidAmount + r.advanceAmount
         balanceAmount == BalanceOf(r.totalAmount, totalPaidAmount)
     IN thns' = SetThnStatus(thns, t, totalPaidAmount, balanceAmount,
                             StatusOf(balanceAmount, totalPaidAmount))
  /\ recompute' = [recompute EXCEPT ![t].pc = "done",
                                    ![t].wrote = thns[t].exists]
  /\ UNCHANGED <<storeVars, lastOp, ledgerVars, callVars, batch, batchStart>>

\* variant: no try / catch, the promise of updateThnStatus rejects
AfterThrowUncaught == "rejected"

\* catch (error) { console.error(...) }: the call settles normally
AfterThrow == "done"

\* one of the awaited database calls of updateThnStatus(t) throws
thrown(t) ==
  /\ recompute[t].pc \in {"findById", "aggregate", "findOne",
                          "findByIdAndUpdate"}
  /\ recompute' = [recompute EXCEPT ![t].pc = AfterThrow,
                                    ![t].failed = TRUE]
  /\ UNCHANGED <<thns, storeVars, lastOp, ledgerVars, callVars, batch,
                 batchStart>>

\* await Promise.all(...) settles: it resolves when every call has
\* resolved and rejects as soon as one rejects (500 by asyncHandler)
getTruckHiringNotesRespond ==
  /\ batch.phase = "running"
  /\ LET rejected == \E t \in batch.notes : recompute[t].pc = "rejected"
     IN /\ rejected \/ \A t \in batch.notes : recompute[t].pc = "done"
        /\ batch' = [batch EXCEPT !.phase = "responded",
                                  !.code = IF rejected THEN 500 ELSE 200]
        /\ lastOp' = [NoOp EXCEPT !.op = "getTruckHiringNotes",
                                  !.code = IF rejected THEN 500 ELSE 200]
  /\ UNCHANGED <<thns, storeVars, ledgerVars, callVars, recompute, batchStart>>

\* requests that fill the collections before the batch, a THN deleted at
\* any time, and the steps of the batch
NextBatch ==
  \/ \E f \in FreightRates, a \in AdvanceInputs, synthOk \in BOOLEAN :
       batch.phase = "idle" /\ createTruckHiringNote(f, 0, a, synthOk)
  \/ \E req \in PlainCreateRequests :
       /\ batch.phase = "idle"
       /\ req.invoiceId = Undefined
       /\ req.truckHiringNoteId \in ThnIds
       /\ createPayment(req)
  \/ \E t \in ThnIds : batch.phase = "idle" /\ recalculateThnStatus(t)
  \/ \E t \in ThnIds : deleteTruckHiringNote(t)
  \/ getTruckHiringNotesFind
  \/ \E t \in ThnIds : thnFindById(t)
  \/ \E t \in ThnIds : paymentAggregate(t)
  \/ \E t \in ThnIds : paymentFindOne(t)
  \/ \E t \in ThnIds : thnFindByIdAndUpdate(t)
  \/ \E t \in ThnIds : thrown(t)
  \/ getTruckHiringNotesRespond

SpecBatch == Init /\ [][NextBatch]_vars

\* payment requests are served while the updateThnStatus calls of a
\* getTruckHiringNotes request are between two of their awaits; an update
\* leaves the payment with its THN
NextRace ==
  \/ \E f \in FreightRates, a \in AdvanceInputs :
       batch.phase = "idle" /\ createTruckHiringNote(f, 0, a, TRUE)
  \/ \E req \in PlainCreateRequests :
       /\ req.invoiceId = Undefined
       /\ req.truckHiringNoteId \in ThnIds
       /\ createPayment(req)
  \/ \E p \in PayIds, req \in PlainUpdateRequests :
       /\ req.invoiceId = Undefined
       /\ req.truckHiringNoteId = payments[p].truckHiringNoteId
       /\ updatePayment(p, req)
  \/ \E p \in PayIds : deletePayment(p)
  \/ getTruckHiringNotesFind
  \/ \E t \in ThnIds : thnFindById(t)
  \/ \E t \in ThnIds : paymentAggregate(t)
  \/ \E t \in ThnIds : paymentFindOne(t)
  \/ \E t \in ThnIds : thnFindByIdAndUpdate(t)
  \/ getTruckHiringNotesRespond

SpecRace == Init /\ [][NextRace]_vars

\* ================================== requests served one await at a time
\* Concurrent createTruckHiringNote, createPayment and updateTruckHiringNote
\* requests.  A call stops where the handler awaits the database between a
\* read and the write that depends on it; the awaits that follow the last
\* such write are taken in one step.

\* TruckHiringNote: unique number (a save with a number already stored is
\* refused)
ThnNumberTaken(T, n) == \E t \in ThnIds : T[t].exists /\ T[t].thnNumber = n

\* a stored payment already carries the number n
PaymentNumberTaken(P, n) ==
  \E p \in PayIds : P[p].exists /\ P[p].paymentNumber = n

\* the body of the concurrent createPayment requests
InvoicePaymentRequest ==
  [NoReq EXCEPT !.invoiceId = 1, !.customer = "valid", !.amount = 4,
                !.type = RECEIPT, !.date = TRUE]

\* createTruckHiringNote: const config = await NumberingConfig.findOne(...)
thnConfigFindOne(c) ==
  /\ calls[c].pc = "idle"
  /\ calls' = [calls EXCEPT ![c] =
                 [NoCall EXCEPT !.op = "createTruckHiringNote",
                                !.pc = "config.save",
                                !.number = thnCounter]]
  /\ UNCHANGED <<thns, storeVars, lastOp, ledgerVars, batchVars>>

\* config.currentNumber = config.currentNumber + 1; await config.save()
thnConfigSave(c) ==
  /\ calls[c].op = "createTruckHiringNote"
  /\ calls[c].pc = "config.save"
  /\ thnCounter' = calls[c].number + 1
  /\ calls' = [calls EXCEPT ![c].pc = "note.save"]
  /\ UNCHANGED <<thns, payments, invoicePayments, payCounter, nextThn,
                 nextPay, requests, synthesized, fresh, lastOp>>
  /\ UNCHANGED <<ledgerVars, batchVars>>

\* await note.save() for a note of freightRate f without advance, and the
\* answer: 201, or 500 when the save is refused
noteSave(c, f) ==
  /\ calls[c].op = "createTruckHiringNote"
  /\ calls[c].pc = "note.save"
  /\ IF ThnNumberTaken(thns, calls[c].number)
     THEN /\ calls' = [calls EXCEPT ![c].pc = "failed", ![c].code = 500]
          /\ lastOp' = [NoOp EXCEPT !.op = "createTruckHiringNote",
                                    !.code = 500]
          /\ UNCHANGED <<thns, nextThn>>
     ELSE /\ nextThn <= MaxThn
          /\ thns' = [thns EXCEPT ![nextThn] =
                        [exists |-> TRUE, thnNumber |-> calls[c].number,
                         freightRate |-> f, additionalCharges |-> 0,
                         advanceAmount |-> 0, paidAmount |-> 0,
                         balanceAmount |-> BalanceOf(f, 0),
                         status |-> UNPAID, payments |-> <<>>]]
          /\ nextThn' = nextThn + 1
          /\ calls' = [calls EXCEPT ![c].pc = "done", ![c].code = 201,
                                    ![c].thn = nextThn]
          /\ lastOp' = [NoOp EXCEPT !.op = "createTruckHiringNote",
                                    !.thn = nextThn, !.code = 201]
  /\ UNCHANGED <<payments, invoicePayments, thnCounter, payCounter, nextPay,
                 requests, synthesized, fresh>>
  /\ UNCHANGED <<ledgerVars, batchVars>>

\* createPayment: const config = await NumberingConfig.findOne(...)
paymentConfigFindOne(c) ==
  /\ calls[c].pc = "idle"
  /\ calls' = [calls EXCEPT ![c] =
                 [NoCall EXCEPT !.op = "createPayment",
                                !.pc = "config.save",
                                !.number = payCounter]]
  /\ UNCHANGED <<thns, storeVars, lastOp, ledgerVars, batchVars>>

\* config.currentNumber = config.currentNumber + 1; await config.save()
paymentConfigSave(c) ==
  /\ calls[c].op = "createPayment"
  /\ calls[c].pc = "config.save"
  /\ payCounter' = calls[c].number + 1
  /\ calls' = [calls EXCEPT ![c].pc = "payment.save"]
  /\ UNCHANGED <<thns, payments, invoicePayments, thnCounter, nextThn,
                 nextPay, requests, synthesized, fresh, lastOp>>
  /\ UNCHANGED <<ledgerVars, batchVars>>

\* await payment.save(), the $push to the invoice, and the answer: 201, or
\* 500 when the save is refused.  The Payment schema decides whether a
\* number that is already stored is refused; both outcomes are taken.
paymentSave(c, refused) ==
  /\ calls[c].op = "createPayment"
  /\ calls[c].pc = "payment.save"
  /\ refused => PaymentNumberTaken(payments, calls[c].number)
  /\ IF refused
     THEN /\ calls' = [calls EXCEPT ![c].pc = "failed", ![c].code = 500]
          /\ lastOp' = [NoOp EXCEPT !.op = "createPayment", !.code = 500]
          /\ UNCHANGED <<payments, invoicePayments, nextPay>>
     ELSE /\ nextPay <= MaxPay
          /\ payments' = [payments EXCEPT ![nextPay] =
                            NewPayment(InvoicePaymentRequest,
                                       calls[c].number)]
          /\ invoicePayments' =
               [invoicePayments EXCEPT
                  ![InvoicePaymentRequest.invoiceId] = Append(@, nextPay)]
          /\ nextPay' = nextPay + 1
          /\ calls' = [calls EXCEPT ![c].pc = "done", ![c].code = 201]
          /\ lastOp' = [NoOp EXCEPT !.op = "createPayment",
                                    !.pid = nextPay, !.code = 201]
  /\ UNCHANGED <<thns, thnCounter, payCounter, nextThn, requests,
                 synthesized, fresh>>
  /\ UNCHANGED <<ledgerVars, batchVars>>

\* updateTruckHiringNote(t, {advanceAmount: a}) with a > 0 different from
\* the stored advance: existingNote = await TruckHiringNote.findById(...)
\* and existingAdvancePayment = await Payment.findOne(...)
advanceFindOne(c, t, a) ==
  /\ calls[c].pc = "idle"
  /\ thns[t].exists
  /\ a > 0
  /\ a # thns[t].advanceAmount
  /\ LET existing == ExistingAdvancePayments(payments, t, thns[t].thnNumber)
     IN calls' = [calls EXCEPT ![c] =
                    [NoCall EXCEPT
                       !.op = "updateTruckHiringNote",
                       !.pc = "synchronise",
                       !.thn = t,
                       !.advanceAmount = a,
                       !.existingNote = thns[t],
                       !.existingAdvancePayment =
                           IF existing = {} THEN Undefined
                           ELSE CHOOSE p \in existing :
                                  \A q \in existing : p <= q]]
  /\ UNCHANGED <<thns, storeVars, lastOp, ledgerVars, batchVars>>

\* the rest of the handler: the advance Payment is updated, or created with
\* the next payment number and pushed to the THN (a refused save is caught
\* and logged); then findByIdAndUpdate(id, updateData) and updateThnStatus
advanceSynchronise(c, refused) ==
  /\ calls[c].op = "updateTruckHiringNote"
  /\ calls[c].pc = "synchronise"
  /\ refused => /\ calls[c].existingAdvancePayment = Undefined
                /\ PaymentNumberTaken(payments, payCounter)
  /\ LET t == calls[c].thn
         a == calls[c].advanceAmount
         existingNote == calls[c].existingNote
         ep == calls[c].existingAdvancePayment
         found == ep # Undefined
         saved == ~found /\ ~refused
         advancePayment ==
             [NoPayment EXCEPT !.exists = TRUE,
                               !.paymentNumber = payCounter,
                               !.truckHiringNoteId = t,
                               !.amount = a,
                               !.type = ADVANCE,
                               !.referenceNo = existingNote.thnNumber]
         P2 == IF found
               THEN IF payments[ep].exists
                    THEN [payments EXCEPT ![ep].amount = a]
                    ELSE payments
               ELSE IF saved
               THEN [payments EXCEPT ![nextPay] = advancePayment]
               ELSE payments
         T1 == IF saved THEN PushPayment(thns, t, nextPay) ELSE thns
         T2 == [T1 EXCEPT
                  ![t].freightRate = existingNote.freightRate,
                  ![t].advanceAmount = a,
                  ![t].additionalCharges = existingNote.additionalCharges,
                  ![t].balanceAmount =
                      BalanceOf(existingNote.freightRate
                                  + existingNote.additionalCharges, a)]
     IN /\ thns[t].exists
        /\ saved => nextPay <= MaxPay
        /\ payments' = P2
        /\ payCounter' = IF found THEN payCounter ELSE payCounter + 1
        /\ nextPay' = IF saved THEN nextPay + 1 ELSE nextPay
        /\ thns' = UpdateThnStatus(T2, P2, t)
        /\ calls' = [calls EXCEPT ![c].pc = "done", ![c].code = 200]
        /\ lastOp' = [NoOp EXCEPT !.op = "updateTruckHiringNote", !.thn = t,
                                  !.pid = IF saved THEN nextPay
                                          ELSE IF found THEN ep
                                          ELSE Undefined,
                                  !.code = 200]
  /\ UNCHANGED <<invoicePayments, thnCounter, nextThn, requests,
                 synthesized, fresh>>
  /\ UNCHANGED <<ledgerVars, batchVars>>

NextCalls ==
  \/ \E c \in CallIds : thnConfigFindOne(c)
  \/ \E c \in CallIds : thnConfigSave(c)
  \/ \E c \in CallIds, f \in FreightRates : noteSave(c, f)
  \/ \E c \in CallIds : paymentConfigFindOne(c)
  \/ \E c \in CallIds : paymentConfigSave(c)
  \/ \E c \in CallIds, refused \in BOOLEAN : paymentSave(c, refused)
  \/ \E c \in CallIds, t \in ThnIds, a \in AdvanceInputs :
       advanceFindOne(c, t, a)
  \/ \E c \in CallIds, refused \in BOOLEAN :
       advanceSynchronise(c, refused)

SpecCalls == Init /\ [][NextCalls]_vars

\* ========================================================= LedgerService
\* Dates are day numbers.  An entry keeps the fields the ledger computes
\* with (date, debit, credit, balance, balanceType) and, in place of its
\* texts (voucherNumber, particulars, reference), the record it was
\* generated for and its position among that record's entries.

\* Invoice, Payment and TruckHiringNote objects of the ledger page
LedgerInvoices ==
  {[date |-> 380, grandTotal |-> 12, customer |-> 1],
   [date |-> 400, grandTotal |-> 4, customer |-> 2]}

\* customer: the payment's customerId string or the _id of its populated
\* customer, Undefined when it has neither; invoiceCustomer: the customer
\* of the invoice the payment is attached to, Undefined when it has none
LedgerPayments ==
  {[date |-> 400, amount |-> 8, type |-> ADVANCE, customer |-> 1,
    invoiceCustomer |-> Undefined,
    tdsApplicable |-> FALSE, tdsAmount |-> Undefined, tdsDate |-> Undefined],
   [date |-> 380, amount |-> 4, type |-> RECEIPT, customer |-> 1,
    invoiceCustomer |-> 1,
    tdsApplicable |-> FALSE, tdsAmount |-> Undefined, tdsDate |-> Undefined],
   [date |-> 400, amount |-> 2, type |-> RECEIPT, customer |-> 2,
    invoiceCustomer |-> 2,
    tdsApplicable |-> TRUE, tdsAmount |-> 2, tdsDate |-> 380],
   [date |-> 380, amount |-> 20, type |-> PAYMENT, customer |-> 1,
    invoiceCustomer |-> Undefined,
    tdsApplicable |-> FALSE, tdsAmount |-> Undefined, tdsDate |-> Undefined],
   [date |-> 400, amount |-> 4, type |-> RECEIPT, customer |-> Undefined,
    invoiceCustomer |-> 1,
    tdsApplicable |-> FALSE, tdsAmount |-> Undefined, tdsDate |-> Undefined]}

LedgerThns == {[date |-> 400, freightRate |-> 8]}

\* sequences of at most n elements of S
SeqUpTo(S, n) == UNION {[1..k -> S] : k \in 0..n}

\* LedgerFilters: omitted, or an object with optional startDate / endDate
LedgerFilterInputs ==
  {[given |-> FALSE, startDate |-> Undefined, endDate |-> Undefined]}
    \cup [given : {TRUE}, startDate : {Undefined, 390},
          endDate : {Undefined, 390}]

LedgerCustomers == {1, 2}

\* the clock readings after the first
LaterDays == {800}

\* 365 * 24 * 60 * 60 * 1000 ms
DefaultPeriodDays == 365

Abs(x) == IF x < 0 THEN 0 - x ELSE x

\* variant: an entry is placed before the entries of its own date
RECURSIVE SortByDateUnstable(_)
SortByDateUnstable(entries) ==
  IF entries = <<>> THEN <<>>
  ELSE LET n == Len(entries)
           e == entries[n]
           sorted == SortByDateUnstable(SubSeq(entries, 1, n - 1))
           k == Cardinality({i \in 1..Len(sorted) : sorted[i].date < e.date})
       IN SubSeq(sorted, 1, k) \o <<e>> \o SubSeq(sorted, k + 1, Len(sorted))

\* entries.sort((a, b) => date(a) - date(b)): Array.prototype.sort is stable
RECURSIVE SortByDate(_)
SortByDate(entries) ==
  IF entries = <<>> THEN <<>>
  ELSE LET n == Len(entries)
           e == entries[n]
           sorted == SortByDate(SubSeq(entries, 1, n - 1))
           k == Cardinality({i \in 1..Len(sorted) : sorted[i].date <= e.date})
       IN SubSeq(sorted, 1, k) \o <<e>> \o SubSeq(sorted, k + 1, Len(sorted))

\* variant: the balance keeps the sign of the running total
RECURSIVE ProcessedEntriesSigned(_, _, _)
ProcessedEntriesSigned(entries, i, runningBalance) ==
  IF i > Len(entries) THEN <<>>
  ELSE LET rb == runningBalance + (entries[i].debit - entries[i].credit)
       IN <<[entries[i] EXCEPT
               !.balance = rb,
               !.balanceType = IF rb >= 0 THEN "DR" ELSE "CR"]>>
            \o ProcessedEntriesSigned(entries, i + 1, rb)

\* entries.map with the runningBalance accumulator, from entry i on
RECURSIVE ProcessedEntries(_, _, _)
ProcessedEntries(entries, i, runningBalance) ==
  IF i > Len(entries) THEN <<>>
  ELSE LET rb == runningBalance + (entries[i].debit - entries[i].credit)
       IN <<[entries[i] EXCEPT
               !.balance = Abs(rb),
               !.balanceType = IF rb >= 0 THEN "DR" ELSE "CR"]>>
            \o ProcessedEntries(entries, i + 1, rb)

\* reduce((sum, entry) => sum + entry.debit, 0) and the same for credit
RECURSIVE SumField(_, _)
SumField(entries, field) ==
  IF entries = <<>> THEN 0
  ELSE entries[1][field] + SumField(Tail(entries), field)

\* !filters || !filters.startDate || date >= filters.startDate
ClientIncluded(date, filters) ==
  ~filters.given \/ filters.startDate = Undefined
    \/ date >= filters.startDate

\* the entries pushed for the customer's invoices, then for the customer's
\* payments, in input order
ClientEntries(customerId, invs, pays, filters) ==
  LET inv[n \in 0..Len(invs)] ==
        IF n = 0 THEN <<>>
        ELSE IF invs[n].customer = customerId
                /\ ClientIncluded(invs[n].date, filters)
        THEN Append(inv[n - 1],
               [date |-> invs[n].date, voucherType |-> "INVOICE",
                debit |-> invs[n].grandTotal, credit |-> 0,
                balance |-> 0, balanceType |-> "DR",
                record |-> <<"invoice", n>>, part |-> 1])
        ELSE inv[n - 1]
      pay[n \in 0..Len(pays)] ==
        IF n = 0 THEN inv[Len(invs)]
        ELSE IF pays[n].customer = customerId
                /\ ClientIncluded(pays[n].date, filters)
        THEN Append(pay[n - 1],
               [date |-> pays[n].date,
                voucherType |-> IF pays[n].type = ADVANCE
                                THEN "ADVANCE" ELSE "PAYMENT",
                debit |-> 0, credit |-> pays[n].amount,
                balance |-> 0, balanceType |-> "CR",
                record |-> <<"payment", n>>, part |-> 1])
        ELSE pay[n - 1]
  IN pay[Len(pays)]

\* variant: the closing balance is the first entry's
ClientSummaryFirstEntry(processedEntries) ==
  [openingBalance |-> 0, openingBalanceType |-> "DR",
   totalDebits |-> SumField(processedEntries, "debit"),
   totalCredits |-> SumField(processedEntries, "credit"),
   closingBalance |-> IF Len(processedEntries) > 0
                      THEN processedEntries[1].balance ELSE 0,
   closingBalanceType |-> IF Len(processedEntries) > 0
                          THEN processedEntries[1].balanceType ELSE "DR",
   transactionCount |-> Len(processedEntries)]

\* the LedgerSummary of generateClientLedger
ClientSummary(processedEntries) ==
  [openingBalance |-> 0, openingBalanceType |-> "DR",
   totalDebits |-> SumField(processedEntries, "debit"),
   totalCredits |-> SumField(processedEntries, "credit"),
   closingBalance |-> IF Len(processedEntries) > 0
                      THEN processedEntries[Len(processedEntries)].balance
                      ELSE 0,
   closingBalanceType |->
       IF Len(processedEntries) > 0
       THEN processedEntries[Len(processedEntries)].balanceType
       ELSE "DR",
   transactionCount |-> Len(processedEntries)]

\* the ClientLedgerData returned for the arrays in ledgerIn
ClientLedgerData(customerId, arrays, filters) ==
  LET processedEntries ==
        ProcessedEntries(
          SortByDate(ClientEntries(customerId, arrays.invoices,
                                   arrays.payments, filters)), 1, 0)
  IN [customerId |-> customerId, openingBalance |-> 0,
      openingBalanceType |-> "DR", transactions |-> processedEntries,
      summary |-> ClientSummary(processedEntries)]

generateClientLedger(customerId, filters) ==
  /\ ledgerOut' = [kind |-> "client",
                   args |-> <<customerId, ledgerIn, filters>>,
                   result |-> ClientLedgerData(customerId, ledgerIn, filters)]
  /\ UNCHANGED <<thns, payments, invoicePayments, thnCounter, payCounter,
                 nextThn, nextPay, requests, lastOp, synthesized, fresh,
                 ledgerIn, now>>
  /\ UNCHANGED <<batchVars, callVars>>

\* an entry of the company ledger before the running balance is set
CompanyEntry(date, debit, credit, record, part) ==
  [date |-> date, debit |-> debit, credit |-> credit, balance |-> 0,
   balanceType |-> IF debit > 0 THEN "DR" ELSE "CR",
   record |-> record, part |-> part]

\* Sales Revenue (credit), Accounts Receivable (debit)
CompanyInvoiceEntries(invoice, n) ==
  <<CompanyEntry(invoice.date, 0, invoice.grandTotal, <<"invoice", n>>, 1),
    CompanyEntry(invoice.date, invoice.grandTotal, 0, <<"invoice", n>>, 2)>>

\* payment.tdsApplicable && type === RECEIPT && tdsAmount && tdsAmount > 0
HasTDS(payment) ==
  /\ payment.tdsApplicable
  /\ payment.type = RECEIPT
  /\ payment.tdsAmount # Undefined
  /\ payment.tdsAmount > 0

\* Advance: Advance Received (credit), Cash/Bank (debit).  Otherwise:
\* Cash/Bank (debit, net), TDS Payable (credit) when there is TDS, Accounts
\* Receivable (credit, gross)
CompanyPaymentEntries(payment, n) ==
  IF payment.type = ADVANCE
  THEN <<CompanyEntry(payment.date, 0, payment.amount, <<"payment", n>>, 1),
         CompanyEntry(payment.date, payment.amount, 0, <<"payment", n>>, 2)>>
  ELSE LET grossAmount == IF HasTDS(payment)
                          THEN payment.amount + payment.tdsAmount
                          ELSE payment.amount
           netAmount == payment.amount
       IN <<CompanyEntry(payment.date, netAmount, 0, <<"payment", n>>, 1)>>
          \o (IF HasTDS(payment)
              THEN <<CompanyEntry(IF payment.tdsDate # Undefined
                                  THEN payment.tdsDate ELSE payment.date,
                                  0, payment.tdsAmount, <<"payment", n>>, 2)>>
              ELSE <<>>)
          \o <<CompanyEntry(payment.date, 0, grossAmount,
                            <<"payment", n>>, 3)>>

\* Freight Expense (debit), Cash/Bank (credit)
CompanyThnEntries(thn, n) ==
  <<CompanyEntry(thn.date, thn.freightRate, 0, <<"thn", n>>, 1),
    CompanyEntry(thn.date, 0, thn.freightRate, <<"thn", n>>, 2)>>

\* filters?.startDate || one year before now
PeriodStart(filters, clock) ==
  IF filters.given /\ filters.startDate # Undefined THEN filters.startDate
  ELSE clock - DefaultPeriodDays

\* filters?.endDate || today
PeriodEnd(filters, clock) ==
  IF filters.given /\ filters.endDate # Undefined THEN filters.endDate
  ELSE clock

\* the entries pushed for the invoices, the payments and the THNs whose date
\* is in the period, in that order
CompanyEntries(arrays, startDate, endDate) ==
  LET InPeriod(d) == d >= startDate /\ d <= endDate
      inv[n \in 0..Len(arrays.invoices)] ==
        IF n = 0 THEN <<>>
        ELSE IF InPeriod(arrays.invoices[n].date)
        THEN inv[n - 1] \o CompanyInvoiceEntries(arrays.invoices[n], n)
        ELSE inv[n - 1]
      pay[n \in 0..Len(arrays.payments)] ==
        IF n = 0 THEN inv[Len(arrays.invoices)]
        ELSE IF InPeriod(arrays.payments[n].date)
        THEN pay[n - 1] \o CompanyPaymentEntries(arrays.payments[n], n)
        ELSE pay[n - 1]
      thn[n \in 0..Len(arrays.truckHiringNotes)] ==
        IF n = 0 THEN pay[Len(arrays.payments)]
        ELSE IF InPeriod(arrays.truckHiringNotes[n].date)
        THEN thn[n - 1] \o CompanyThnEntries(arrays.truckHiringNotes[n], n)
        ELSE thn[n - 1]
  IN thn[Len(arrays.truckHiringNotes)]

\* the CompanyLedgerData returned for the arrays in ledgerIn at time clock
CompanyLedgerData(arrays, filters, clock) ==
  LET startDate == PeriodStart(filters, clock)
      endDate == PeriodEnd(filters, clock)
      totalRevenue == SumField(arrays.invoices, "grandTotal")
      totalExpenses == SumField(arrays.truckHiringNotes, "freightRate")
  IN [period |-> [startDate |-> startDate, endDate |-> endDate],
      transactions |->
          ProcessedEntries(
            SortByDate(CompanyEntries(arrays, startDate, endDate)), 1, 0),
      summary |-> [totalRevenue |-> totalRevenue,
                   totalExpenses |-> totalExpenses,
                   netProfit |-> totalRevenue - totalExpenses,
                   totalAssets |-> 0, totalLiabilities |-> 0]]

generateCompanyLedger(filters) ==
  /\ ledgerOut' = [kind |-> "company",
                   args |-> <<ledgerIn, filters>>,
                   result |-> CompanyLedgerData(ledgerIn, filters, now)]
  /\ UNCHANGED <<thns, payments, invoicePayments, thnCounter, payCounter,
                 nextThn, nextPay, requests, lastOp, synthesized, fresh,
                 ledgerIn, now>>
  /\ UNCHANGED <<batchVars, callVars>>

\* time passes between two ledger calls
Tick ==
  /\ \E d \in LaterDays : d > now /\ now' = d
  /\ UNCHANGED <<thns, payments, invoicePayments, thnCounter, payCounter,
                 nextThn, nextPay, requests, lastOp, synthesized, fresh,
                 ledgerIn, ledgerOut>>
  /\ UNCHANGED <<batchVars, callVars>>

\* the ledger page holds any arrays of invoices, payments and THNs
LedgerInit ==
  /\ StoreInit
  /\ ledgerIn \in [invoices : SeqUpTo(LedgerInvoices, 2),
                    payments : SeqUpTo(LedgerPayments, MaxPay),
                    truckHiringNotes : SeqUpTo(LedgerThns, 1)]
  /\ now = FirstDay
  /\ ledgerOut = NoLedger
  /\ BatchInit
  /\ CallsInit

NextLedger ==
  \/ \E customerId \in LedgerCustomers, filters \in LedgerFilterInputs :
       generateClientLedger(customerId, filters)
  \/ \E filters \in LedgerFilterInputs : generateCompanyLedger(filters)
  \/ Tick

SpecLedger == LedgerInit /\ [][NextLedger]_vars

\* ================================================================ claims

\* the request that completed last changed the payments of THN t
PaymentRequestOn(t) ==
  /\ lastOp.op \in {"createPayment", "updatePayment", "deletePayment"}
  /\ lastOp.thn = t

\* C1: every stored THN has balanceAmount = max(0, freightRate +
\* additionalCharges - paidAmount), and balanceAmount is never negative.
BalanceInvariant ==
  \A t \in ThnIds :
    thns[t].exists =>
      /\ thns[t].balanceAmount >= 0
      /\ thns[t].balanceAmount =
           Max(0, thns[t].freightRate + thns[t].additionalCharges
                    - thns[t].paidAmount)

\* C1 witness: a payment request left a THN overpaid, so the clamp applied
BalanceInvariantWitness ==
  \E t \in ThnIds :
    /\ thns[t].exists
    /\ PaymentRequestOn(t)
    /\ thns[t].paidAmount >
         thns[t].freightRate + thns[t].additionalCharges
    /\ thns[t].balanceAmount = 0

\* C3: the stored status is PAID iff balanceAmount <= 0, PARTIALLY_PAID iff
\* paidAmount > 0 and balanceAmount > 0, and UNPAID otherwise, in every state
\* any request leaves.
StatusDerivation ==
  \A t \in ThnIds :
    thns[t].exists =>
      /\ thns[t].status = PAID <=> thns[t].balanceAmount <= 0
      /\ thns[t].status = PARTIALLY_PAID <=>
           (thns[t].paidAmount > 0 /\ thns[t].balanceAmount > 0)
      /\ thns[t].status = UNPAID <=>
           (thns[t].paidAmount <= 0 /\ thns[t].balanceAmount > 0)

\* C3 witness: a recompute after a payment request left a THN fully paid
\* that was created unpaid
StatusDerivationWitness ==
  \E t \in ThnIds :
    /\ thns[t].exists
    /\ PaymentRequestOn(t)
    /\ thns[t].advanceAmount = 0
    /\ thns[t].status = PAID
    /\ thns[t].balanceAmount = 0

\* C2: for a THN created with a synthesized advance Payment, the stored
\* paidAmount equals the sum of amount over the Payments linked to it, after
\* any sequence of payment and THN update requests.
PaidEqualsLinkedSum ==
  \A t \in synthesized :
    thns[t].exists => thns[t].paidAmount = PaidFromRecords(payments, t)

\* a step in which createPayment stored a payment whose only parent is THN t
CreatePaymentStepOn(t) ==
  \E req \in PlainCreateRequests :
    /\ createPayment(req)
    /\ req.invoiceId = Undefined
    /\ req.truckHiringNoteId = t

\* a step in which updatePayment raised the amount of a payment of THN t
RaisingUpdateStepOn(t) ==
  \E p \in PayIds, req \in PlainUpdateRequests :
    /\ updatePayment(p, req)
    /\ payments[p].invoiceId = Undefined
    /\ payments'[p].invoiceId = Undefined
    /\ payments[p].truckHiringNoteId = t
    /\ payments'[p].truckHiringNoteId = t
    /\ payments'[p].amount > payments[p].amount

\* C4: a createPayment against a PAID THN, or an updatePayment that raises
\* the amount of one of its payments, leaves the THN PAID when freightRate
\* and additionalCharges do not change.
PaidStaysPaid ==
  [][\A t \in ThnIds :
       (/\ thns[t].exists
        /\ thns[t].status = PAID
        /\ CreatePaymentStepOn(t) \/ RaisingUpdateStepOn(t)
        /\ thns'[t].freightRate = thns[t].freightRate
        /\ thns'[t].additionalCharges = thns[t].additionalCharges)
       => thns'[t].status = PAID]_vars

\* the request that completed last recomputed THN t and wrote nothing else
Recomputed(op, t) ==
  \/ op.op = "recalculateThnStatus" /\ op.thn = t
  \/ op.op = "getTruckHiringNotes"

\* C5: a recompute of a THN that directly follows a recompute of the same THN
\* leaves its paidAmount, balanceAmount and status as the first one left them.
RecomputeIdempotent ==
  [][\A t \in ThnIds :
       (Recomputed(lastOp, t) /\ Recomputed(lastOp', t))
       => /\ thns'[t].paidAmount = thns[t].paidAmount
          /\ thns'[t].balanceAmount = thns[t].balanceAmount
          /\ thns'[t].status = thns[t].status]_vars

\* C5 witness: a recompute has completed for a THN that has a linked payment
\* and an advance, and the next recompute can start
RecomputeIdempotentWitness ==
  \E t \in ThnIds :
    /\ thns[t].exists
    /\ Recomputed(lastOp, t)
    /\ thns[t].advanceAmount > 0
    /\ LinkedPayments(payments, t) # {}
    /\ ~AdvancePaymentExists(payments, t)

\* the Advance payments of THN t
AdvancePaymentsOf(t) ==
  {p \in LinkedPayments(payments, t) : payments[p].type = ADVANCE}

\* C6: a THN created with advanceAmount a > 0 has exactly one Advance
\* Payment, of amount a, with reference THN-{thnNumber}-ADVANCE, in its
\* payments list, and its paidAmount is a at creation and after every
\* recompute that follows.
AdvanceCountedOnce ==
  \A t \in fresh :
    /\ thns[t].exists
    /\ thns[t].advanceAmount > 0
    /\ Cardinality(AdvancePaymentsOf(t)) = 1
    /\ \A p \in AdvancePaymentsOf(t) :
         /\ payments[p].amount = thns[t].advanceAmount
         /\ payments[p].referenceNo = thns[t].thnNumber
         /\ thns[t].payments = <<p>>
    /\ thns[t].paidAmount = thns[t].advanceAmount

\* C6 witness: such a THN has been recomputed
AdvanceCountedOnceWitness ==
  \E t \in fresh : Recomputed(lastOp, t)

\* the payments linked to THN t in collection P, with their amounts
LinkedAmounts(P, t) == {<<p, P[p].amount>> : p \in LinkedPayments(P, t)}

\* a completed createPayment, updatePayment or deletePayment on a payment
\* that has no invoice
PaymentStep ==
  /\ requests' = requests + 1
  /\ lastOp'.op \in {"createPayment", "updatePayment", "deletePayment"}
  /\ payments[lastOp'.pid].invoiceId = Undefined
  /\ payments'[lastOp'.pid].invoiceId = Undefined

\* C7: after a payment request completes, every THN whose linked payments or
\* their amounts it changed stores the paidAmount, balanceAmount and status
\* that updateThnStatus derives from the payments then present.
RecomputeFollowsPaymentChange ==
  [][PaymentStep =>
       \A t \in ThnIds :
         (thns'[t].exists
            /\ LinkedAmounts(payments, t) # LinkedAmounts(payments', t))
         => thns'[t] = UpdateThnStatus(thns', payments', t)[t]]_vars

\* C8: no stored Payment references both an invoice and a THN.
AtMostOneParent ==
  \A p \in PayIds :
    payments[p].exists =>
      ~(payments[p].invoiceId # Undefined
          /\ payments[p].truckHiringNoteId # Undefined)

\* a step in which createPayment stored a Receipt with TDS applicable
TdsReceiptCreated(req) ==
  /\ req.type = RECEIPT
  /\ req.tdsApplicable = "true"
  /\ nextPay' = nextPay + 1
  /\ createPayment(req)

\* C9: createPayment for a Receipt with TDS applicable stores, when the
\* request has no tdsAmount, tdsAmount = amount * tdsRate / 100 and
\* amount = the request's amount minus it; when the request has a tdsAmount,
\* it stores the request's amount and tdsAmount unchanged.
TdsSplitOnCreate ==
  [][\A req \in TdsCreateRequests :
       TdsReceiptCreated(req) =>
         LET stored == payments'[nextPay]
         IN IF req.tdsAmount = Undefined
            THEN /\ 100 * stored.tdsAmount = req.amount * req.tdsRate
                 /\ stored.amount = req.amount - stored.tdsAmount
                 /\ stored.amount + stored.tdsAmount = req.amount
            ELSE /\ stored.amount = req.amount
                 /\ stored.tdsAmount = req.tdsAmount]_vars

\* C9 witness: createPayment has stored a Receipt whose TDS was derived from
\* the gross amount (4 at 50%: 2 and 2)
TdsSplitOnCreateWitness ==
  /\ lastOp.op = "createPayment"
  /\ lastOp.code = 201
  /\ payments[lastOp.pid].type = RECEIPT
  /\ payments[lastOp.pid].tdsApplicable = "true"
  /\ payments[lastOp.pid].tdsRate = 50
  /\ payments[lastOp.pid].tdsAmount = 2
  /\ payments[lastOp.pid].amount = 2

\* C10: a stored Payment that is not a Receipt, or whose tdsApplicable is
\* false or absent, has no tdsRate, tdsAmount or tdsDate.
NoTdsFieldsUnlessTdsReceipt ==
  \A p \in PayIds :
    (payments[p].exists
       /\ (payments[p].type # RECEIPT \/ payments[p].tdsApplicable # "true"))
    => /\ payments[p].tdsRate = Undefined
       /\ payments[p].tdsAmount = Undefined
       /\ ~payments[p].tdsDate

\* the ways of failing validation that C11 lists
CreatePaymentFailsValidation(req) ==
  \/ req.invoiceId = Undefined /\ req.truckHiringNoteId = Undefined
  \/ req.tdsApplicable = "true" /\ req.tdsRate = Undefined
  \/ req.tdsApplicable = "true" /\ req.type # RECEIPT
  \/ req.amount <= 0
  \/ req.customer = "malformed"

\* C11: a createPayment request that fails validation is answered 400 and
\* changes nothing: no Payment is stored, the paymentId counter does not
\* advance, and no THN or invoice is modified.
InvalidCreateChangesNothing ==
  [][\A req \in InvalidCreateRequests :
       (CreatePaymentFailsValidation(req)
          /\ (createPayment(req) \/ createPaymentRejected(req)))
       => /\ lastOp'.op = "createPayment"
          /\ lastOp'.code = 400
          /\ UNCHANGED <<thns, payments, invoicePayments, payCounter,
                         nextPay>>]_vars

\* C11 witness: a request was answered 400 while a THN and a Payment were
\* stored
InvalidCreateChangesNothingWitness ==
  /\ lastOp.op = "createPayment"
  /\ lastOp.code = 400
  /\ \E t \in ThnIds : thns[t].exists
  /\ \E p \in PayIds : payments[p].exists

\* the sum of debit - credit over the first i transactions
RECURSIVE SignedSumTo(_, _)
SignedSumTo(tx, i) ==
  IF i = 0 THEN 0
  ELSE SignedSumTo(tx, i - 1) + tx[i].debit - tx[i].credit

\* C12: in the transactions of a client or company ledger, every entry's
\* balance is the absolute value of the sum of debit - credit over the
\* entries up to it in output order, and its balanceType is DR when that sum
\* is >= 0 and CR when it is negative.
LedgerBalanceLaw ==
  ledgerOut.kind # "none" =>
    LET tx == ledgerOut.result.transactions
    IN \A i \in 1..Len(tx) :
         /\ tx[i].balance = Abs(SignedSumTo(tx, i))
         /\ tx[i].balanceType =
              IF SignedSumTo(tx, i) >= 0 THEN "DR" ELSE "CR"

\* C12 witness: a ledger of three or more entries in which the balance is on
\* the credit side after one entry and on the debit side after another
LedgerBalanceLawWitness ==
  /\ ledgerOut.kind # "none"
  /\ LET tx == ledgerOut.result.transactions
     IN /\ Len(tx) >= 3
        /\ \E i \in 1..Len(tx) :
             tx[i].balanceType = "CR" /\ tx[i].balance > 0
        /\ \E i \in 1..Len(tx) :
             tx[i].balanceType = "DR" /\ tx[i].balance > 0

\* the sum of field over the records of the customer that the start-date
\* filter includes
RECURSIVE IncludedTotal(_, _, _, _)
IncludedTotal(records, field, customerId, filters) ==
  IF records = <<>> THEN 0
  ELSE (IF records[1].customer = customerId
           /\ (filters.given /\ filters.startDate # Undefined
                 => records[1].date >= filters.startDate)
        THEN records[1][field] ELSE 0)
       + IncludedTotal(Tail(records), field, customerId, filters)

\* C13: the summary of a client ledger has openingBalance 0/DR, totalDebits
\* = the sum of grandTotal of the included invoices, totalCredits = the sum
\* of amount of the included payments, transactionCount = the number of
\* entries, and closingBalance / closingBalanceType = the last entry's balance
\* and side = |totalDebits - totalCredits|, DR iff totalDebits >=
\* totalCredits, and 0/DR when there are no entries.
ClientSummaryLaw ==
  ledgerOut.kind = "client" =>
    LET tx == ledgerOut.result.transactions
        sm == ledgerOut.result.summary
        customerId == ledgerOut.args[1]
        arrays == ledgerOut.args[2]
        filters == ledgerOut.args[3]
    IN /\ sm.openingBalance = 0
       /\ sm.openingBalanceType = "DR"
       /\ sm.totalDebits =
            IncludedTotal(arrays.invoices, "grandTotal", customerId, filters)
       /\ sm.totalCredits =
            IncludedTotal(arrays.payments, "amount", customerId, filters)
       /\ sm.transactionCount = Len(tx)
       /\ sm.closingBalance = Abs(sm.totalDebits - sm.totalCredits)
       /\ sm.closingBalanceType = "DR" <=> sm.totalDebits >= sm.totalCredits
       /\ sm.closingBalanceType \in {"DR", "CR"}
       /\ IF Len(tx) = 0
          THEN sm.closingBalance = 0 /\ sm.closingBalanceType = "DR"
          ELSE /\ sm.closingBalance = tx[Len(tx)].balance
               /\ sm.closingBalanceType = tx[Len(tx)].balanceType

\* C13 witness: a client ledger of an invoice and payments that closes on
\* the credit side with another balance after its first entry
ClientSummaryLawWitness ==
  /\ ledgerOut.kind = "client"
  /\ LET tx == ledgerOut.result.transactions
        sm == ledgerOut.result.summary
     IN /\ Len(tx) >= 2
        /\ sm.totalDebits > 0
        /\ sm.closingBalanceType = "CR"
        /\ sm.closingBalance > 0
        /\ tx[1].balance # sm.closingBalance

\* the sum of field over the transactions generated for one record
RECURSIVE RecordTotal(_, _, _)
RecordTotal(tx, field, record) ==
  IF tx = <<>> THEN 0
  ELSE (IF tx[1].record = record THEN tx[1][field] ELSE 0)
       + RecordTotal(Tail(tx), field, record)

\* C14: in a company ledger the debits of the entries generated for each
\* invoice, payment and THN sum to the same value as its credits, so the
\* signed running balance after the last entry is 0.
CompanyBooksBalanced ==
  ledgerOut.kind = "company" =>
    LET tx == ledgerOut.result.transactions
    IN /\ \A i \in 1..Len(tx) :
            RecordTotal(tx, "debit", tx[i].record)
              = RecordTotal(tx, "credit", tx[i].record)
       /\ SignedSumTo(tx, Len(tx)) = 0

\* C15: two consecutive calls of generateClientLedger, or of
\* generateCompanyLedger, with equal arguments return equal results, whatever
\* time passes between them.
LedgerCallsPure ==
  [][(/\ ledgerOut.kind # "none"
      /\ ledgerOut'.kind = ledgerOut.kind
      /\ ledgerOut'.args = ledgerOut.args)
     => ledgerOut'.result = ledgerOut.result]_vars

\* a step of the updateThnStatus call for THN t
RecomputeStep(t) ==
  \/ thnFindById(t)
  \/ paymentAggregate(t)
  \/ paymentFindOne(t)
  \/ thnFindByIdAndUpdate(t)
  \/ thrown(t)

\* C16: updateThnStatus never throws, and on an id that has no THN (never
\* stored, or deleted meanwhile) it changes no THN and no Payment; in the
\* batch of getTruckHiringNotes a missing or failing THN does not keep the
\* request from answering 200 nor a sibling THN from being recomputed.
UpdateThnStatusNeverThrows ==
  /\ [](\A t \in ThnIds : recompute[t].pc # "rejected")
  /\ [](batch.phase = "responded" =>
          /\ batch.code = 200
          /\ \A t \in batch.notes :
               (thns[t].exists /\ ~recompute[t].failed)
               => thns[t] = UpdateThnStatus(thns, payments, t)[t])
  /\ [][\A t \in ThnIds :
          (~thns[t].exists /\ (RecomputeStep(t) \/ recalculateThnStatus(t)))
          => thns' = thns /\ payments' = payments]_vars

\* C16 witness: the batch has answered although the call for one THN threw
\* and the THN of another was deleted meanwhile
UpdateThnStatusNeverThrowsWitness ==
  /\ batch.phase = "responded"
  /\ \E t \in batch.notes, u \in batch.notes :
       /\ t # u
       /\ recompute[t].failed
       /\ ~thns[u].exists
       /\ recompute[u].pc = "done"
       /\ ~recompute[u].failed

\* the orders in which the THNs of S can be recomputed one after another
Orders(S) ==
  {o \in [1..Cardinality(S) -> S] :
     \A i, j \in 1..Cardinality(S) : i # j => o[i] # o[j]}

\* the THN collection after updateThnStatus for each THN of order in turn
RECURSIVE SequentialRecompute(_, _, _)
SequentialRecompute(T, P, order) ==
  IF order = <<>> THEN T
  ELSE SequentialRecompute(UpdateThnStatus(T, P, order[1]), P, Tail(order))

CreateMatchesRecompute ==
  /\ [](lastOp.op = "createTruckHiringNote" =>
          LET note == thns[lastOp.thn]
          IN /\ note.paidAmount = note.advanceAmount
             /\ note.balanceAmount =
                  Max(0, note.freightRate + note.additionalCharges
                           - note.advanceAmount)
             /\ note.status =
                  (IF note.balanceAmount <= 0 THEN PAID
                   ELSE IF note.paidAmount > 0 THEN PARTIALLY_PAID
                   ELSE UNPAID)
             /\ note = UpdateThnStatus(thns, payments, lastOp.thn)[lastOp.thn])
  /\ [][\A req \in PlainCreateRequests :
          (/\ lastOp.op = "createTruckHiringNote"
           /\ req.type = RECEIPT
           /\ req.invoiceId = Undefined
           /\ req.truckHiringNoteId = lastOp.thn
           /\ req.amount = thns[lastOp.thn].balanceAmount
           /\ createPayment(req))
          => /\ thns'[lastOp.thn].status = PAID
             /\ thns'[lastOp.thn].balanceAmount = 0]_vars

\* C18 witness: a THN created PARTIALLY_PAID with an advance (8 + 4 - 8
\* leaves 4) is PAID with balance 0 after a Receipt of 4
CreateMatchesRecomputeWitness ==
  /\ lastOp.op = "createPayment"
  /\ requests = 2
  /\ lastOp.thn \in ThnIds
  /\ payments[lastOp.pid].type = RECEIPT
  /\ payments[lastOp.pid].amount = 4
  /\ thns[lastOp.thn].advanceAmount = 8
  /\ thns[lastOp.thn].additionalCharges = 4
  /\ thns[lastOp.thn].paidAmount = 12
  /\ thns[lastOp.thn].balanceAmount = 0
  /\ thns[lastOp.thn].status = PAID

\* the request that completed last ended with updateThnStatus of THN t
JustRecomputed(t) ==
  \/ Recomputed(lastOp, t)
  \/ PaymentRequestOn(t)
  \/ lastOp.op = "updateTruckHiringNote" /\ lastOp.thn = t

\* C19: updateThnStatus takes totalPaid = the sum of the linked payment
\* amounts only when a linked Payment has type Advance and the reference
\* THN-{thnNumber}-ADVANCE; when no such Payment exists it takes that sum
\* plus the THN's advanceAmount.
AdvanceCountedByTag ==
  \A t \in ThnIds :
    (thns[t].exists /\ JustRecomputed(t)) =>
      thns[t].paidAmount =
        IF ExistingAdvancePayments(payments, t, thns[t].thnNumber) # {}
        THEN PaidFromRecords(payments, t)
        ELSE PaidFromRecords(payments, t) + thns[t].advanceAmount

\* a step in which updatePayment served req, a request with a tdsRate and
\* without tdsAmount, on payment p, a Receipt with TDS applicable before and
\* after the update
TdsReceiptUpdated(p, req) ==
  /\ req.tdsAmount = Undefined
  /\ req.tdsRate # Undefined
  /\ payments[p].type = RECEIPT
  /\ payments[p].tdsApplicable = "true"
  /\ updatePayment(p, req)
  /\ payments'[p].type = RECEIPT
  /\ payments'[p].tdsApplicable = "true"

\* C20: updatePayment on a Receipt with TDS applicable, with no tdsAmount in
\* the request, stores tdsAmount = base * tdsRate / 100 for the request's
\* tdsRate, where base is the request's amount if it has one and the stored
\* amount otherwise, whether or not the request repeats the type.
TdsRederivedOnUpdate ==
  [][\A p \in PayIds, req \in TdsUpdateRequests :
       TdsReceiptUpdated(p, req) =>
         LET base == IF req.amount # Undefined THEN req.amount
                     ELSE payments[p].amount
         IN 100 * payments'[p].tdsAmount = base * req.tdsRate]_vars

\* the ids in the payments list of a THN document
ListedPayments(note) == {note.payments[i] : i \in 1..Len(note.payments)}

\* a step in which updateTruckHiringNote served a request on THN t that
\* carries advanceAmount a, different from the stored one
AdvanceChangedBy(t, a) ==
  /\ a # Undefined
  /\ thns[t].exists
  /\ a # thns[t].advanceAmount
  /\ \E f \in {Undefined} \cup FreightRateUpdates, c \in {Undefined, 4},
        synthOk \in BOOLEAN : updateTruckHiringNote(t, f, a, c, synthOk)

\* C21: after an updateTruckHiringNote that changes advanceAmount, a new
\* advanceAmount > 0 leaves exactly one linked Payment of type Advance with
\* the reference THN-{thnNumber}-ADVANCE, of that amount; a new advanceAmount
\* of 0 leaves none, and none in the THN's payments list; in both cases
\* paidAmount is the advanceAmount plus the other linked payments.
AdvanceSynchronised ==
  [][\A t \in ThnIds, a \in AdvanceInputs :
       AdvanceChangedBy(t, a) =>
         LET before == ExistingAdvancePayments(payments, t, thns[t].thnNumber)
             tagged == ExistingAdvancePayments(payments', t,
                                               thns'[t].thnNumber)
         IN /\ thns'[t].advanceAmount = a
            /\ a > 0 => /\ Cardinality(tagged) = 1
                        /\ \A p \in tagged : payments'[p].amount = a
            /\ a = 0 => /\ tagged = {}
                        /\ before \cap ListedPayments(thns'[t]) = {}
            /\ thns'[t].paidAmount =
                 a + SumAmounts(payments', LinkedPayments(payments', t)
                                             \ tagged)]_vars

\* createTruckHiringNote has just answered for a THN with an advance whose
\* advance Payment could not be saved
AdvanceSaveFailed(t) ==
  /\ lastOp.op = "createTruckHiringNote"
  /\ lastOp.thn = t
  /\ lastOp.pid = Undefined
  /\ thns[t].advanceAmount > 0

\* C22: when saving the synthesized advance Payment fails in
\* createTruckHiringNote the THN is stored with its advanceAmount and the
\* request answers 201, and the recompute of that THN that follows yields
\* paidAmount = advanceAmount + the sum of its linked payments.
FailedSynthesisKeepsAdvance ==
  /\ [](\A t \in ThnIds :
          AdvanceSaveFailed(t) => thns[t].exists /\ lastOp.code = 201)
  /\ [][\A t \in ThnIds :
          (/\ AdvanceSaveFailed(t)
           /\ thns'[t].exists
           /\ Recomputed(lastOp', t) \/ PaymentRequestOn(t)')
          => thns'[t].paidAmount =
               thns'[t].advanceAmount + PaidFromRecords(payments', t)]_vars

\* C23: a payment with no customerId and no populated customer that is
\* attached to an invoice of the requested customer yields a credit entry of
\* the client ledger (when its date passes the startDate filter).
UnresolvedCustomerIncluded ==
  ledgerOut.kind = "client" =>
    LET customerId == ledgerOut.args[1]
        pays == ledgerOut.args[2].payments
        filters == ledgerOut.args[3]
        transactions == ledgerOut.result.transactions
    IN \A n \in 1..Len(pays) :
         (/\ pays[n].customer = Undefined
          /\ pays[n].invoiceCustomer = customerId
          /\ ClientIncluded(pays[n].date, filters))
         => \E i \in 1..Len(transactions) :
              /\ transactions[i].record = <<"payment", n>>
              /\ transactions[i].debit = 0
              /\ transactions[i].credit = pays[n].amount

\* the place of an entry in the order of generation: invoices, then
\* payments, then THNs, each in input order, the entries of one record in
\* the order they are pushed
GeneratedBefore(e1, e2) ==
  LET KindOrder(k) == CASE k = "invoice" -> 1
                        [] k = "payment" -> 2
                        [] k = "thn" -> 3
      k1 == KindOrder(e1.record[1])
      k2 == KindOrder(e2.record[1])
  IN \/ k1 < k2
     \/ k1 = k2 /\ e1.record[2] < e2.record[2]
     \/ k1 = k2 /\ e1.record[2] = e2.record[2] /\ e1.part < e2.part

\* C24: the transactions of a client or company ledger are in
\* non-decreasing date order, and entries of equal date are in the order in
\* which they were generated.
LedgerSortedStable ==
  ledgerOut.kind \in {"client", "company"} =>
    LET transactions == ledgerOut.result.transactions
    IN \A i \in 1..Len(transactions), j \in 1..Len(transactions) :
         i < j =>
           /\ transactions[i].date <= transactions[j].date
           /\ transactions[i].date = transactions[j].date
                => GeneratedBefore(transactions[i], transactions[j])

\* C24 witness: a ledger in which the sort moved an entry in front of one
\* generated earlier and two entries of different records share a date
LedgerSortedStableWitness ==
  /\ ledgerOut.kind \in {"client", "company"}
  /\ LET transactions == ledgerOut.result.transactions
     IN /\ \E i \in 1..Len(transactions), j \in 1..Len(transactions) :
             /\ i < j
             /\ GeneratedBefore(transactions[j], transactions[i])
        /\ \E i \in 1..Len(transactions), j \in 1..Len(transactions) :
             /\ i < j
             /\ transactions[i].date = transactions[j].date
             /\ transactions[i].record # transactions[j].record

\* C27: after every completed request, every stored Payment that has a
\* truckHiringNoteId references a stored THN.
PaymentsReferenceStoredThn ==
  \A p \in PayIds :
    (payments[p].exists /\ payments[p].truckHiringNoteId # Undefined) =>
      /\ payments[p].truckHiringNoteId \in ThnIds
      /\ thns[payments[p].truckHiringNoteId].exists

\* C28: after every completed request, the payments list of every stored
\* THN holds exactly the ids of the stored Payments whose truckHiringNoteId
\* is that THN, each once.
PaymentsListAgrees ==
  \A t \in ThnIds :
    thns[t].exists =>
      /\ ListedPayments(thns[t]) = LinkedPayments(payments, t)
      /\ Len(thns[t].payments) = Cardinality(ListedPayments(thns[t]))

\* C30: every entry of a company ledger has its date in the returned
\* period, and an invoice, payment or THN has entries in the ledger exactly
\* when its own date is in that period.
CompanyEntriesInPeriod ==
  ledgerOut.kind = "company" =>
    LET arrays == ledgerOut.args[1]
        period == ledgerOut.result.period
        transactions == ledgerOut.result.transactions
        InPeriod(d) == d >= period.startDate /\ d <= period.endDate
        HasEntries(kind, n) ==
          \E i \in 1..Len(transactions) :
            transactions[i].record = <<kind, n>>
    IN /\ \A i \in 1..Len(transactions) : InPeriod(transactions[i].date)
       /\ \A n \in 1..Len(arrays.invoices) :
            HasEntries("invoice", n) <=> InPeriod(arrays.invoices[n].date)
       /\ \A n \in 1..Len(arrays.payments) :
            HasEntries("payment", n) <=> InPeriod(arrays.payments[n].date)
       /\ \A n \in 1..Len(arrays.truckHiringNotes) :
            HasEntries("thn", n)
              <=> InPeriod(arrays.truckHiringNotes[n].date)

\* C26: when the recomputes of a getTruckHiringNotes request run while
\* createPayment, updatePayment and deletePayment requests are served on the
\* same THNs, then once the request has answered (every payment request
\* being complete) each THN it recomputed holds the paidAmount, balanceAmount
\* and status derived from the payments stored at that moment.
RecomputeNeverStale ==
  batch.phase = "responded" =>
    \A t \in batch.notes :
      thns[t].exists => thns[t] = UpdateThnStatus(thns, payments, t)[t]

\* the requests that have been received have all been answered
CallsFinished == \A c \in CallIds : calls[c].pc \in {"idle", "done", "failed"}

StoredThns == {t \in ThnIds : thns[t].exists}

StoredPayments == {p \in PayIds : payments[p].exists}

\* C25: under concurrent creation requests no two THNs and no two payments
\* share a number, and once the requests are answered each counter stands at
\* its initial value plus the number of records minted from it.
NumberingUniqueAndCounted ==
  /\ \A t1, t2 \in StoredThns :
       thns[t1].thnNumber = thns[t2].thnNumber => t1 = t2
  /\ \A p1, p2 \in StoredPayments :
       payments[p1].paymentNumber = payments[p2].paymentNumber => p1 = p2
  /\ CallsFinished =>
       /\ thnCounter = 1 + Cardinality(StoredThns)
       /\ payCounter = 1 + Cardinality(StoredPayments)

\* C29: when concurrent updateTruckHiringNote requests each set a positive
\* advance on the same THN, at most one Advance payment tagged
\* THN-<number>-ADVANCE is linked to it.
OneTaggedAdvancePayment ==
  \A t \in StoredThns :
    Cardinality(ExistingAdvancePayments(payments, t, thns[t].thnNumber)) <= 1
====
